---- MODULE Spec2Model ----
(***************************************************************************)
(* A model of src/prefect/orion/api/server.py: the Orion application       *)
(* factory.  Three parts of the file are modelled:                         *)
(*   - create_orion_api: the router registry and the override validation;  *)
(*   - start_services / stop_services / on_service_exit: the supervision   *)
(*     of the background services of one application;                      *)
(*   - create_app: the process-wide application cache APP_CACHE.           *)
(***************************************************************************)
EXTENDS Integers, Sequences, FiniteSets, TLC

VARIABLES
    \* ---- create_orion_api ----
    router_overrides, \* the argument: an ordered mapping prefix -> router or None
    api_pc,           \* position of the call: "start", "overrides", "include", "returned", "raised"
    ov_index,         \* number of entries of router_overrides.items() already processed
    routers,          \* the local dict `routers`, in insertion order
    included,         \* routers passed to api_app.include_router, in order
    api_error,        \* the exception create_orion_api raised, or NoError
    \* ---- the services of one application ----
    ephemeral,        \* the ephemeral argument of create_app
    enabled,          \* services whose PREFECT_ORION_..._ENABLED setting is on
    start_kind,       \* per service: how its start() coroutine behaves
    stop_kind,        \* per service: how its stop() coroutine behaves
    svc_pc,           \* position in the application's lifespan
    startup_done,     \* the on_startup actions that have completed, in order
    observer_raised,  \* the services whose on_service_exit call raised
    app_services,     \* app.state.services: unset, None, or a dict service -> task
    task,             \* per service: the state of its asyncio task
    callback_attached,\* per service: on_service_exit was added to its task
    stop,             \* per service: the state of its stop() coroutine in the gather
    stop_requested,   \* per service: its stop() has made the request
    log,              \* per service: the events on_service_exit logged, in order
    \* ---- create_app and the application cache ----
    APP_CACHE,        \* the module-level dict, in insertion order: key -> application
    apps_built,       \* number of application objects constructed so far (line 363)
    last_call,        \* the latest create_app call: its arguments and its outcome
    last_plain,       \* per (settings value, ephemeral): the application the latest
                      \* call returned, if no ignore_cache call came after it
    serving           \* applications whose startup has run and whose shutdown has
                      \* not: their services, if any, have been started

api_vars == <<router_overrides, api_pc, ov_index, routers, included, api_error>>

cache_vars == <<APP_CACHE, apps_built, last_call, last_plain, serving>>

svc_vars == <<ephemeral, enabled, start_kind, stop_kind, svc_pc, startup_done, observer_raised, app_services,
              task, callback_attached, stop, stop_requested, log>>

----------------------------------------------------------------------------
(* Bounds *)

MaxOverrides == 2

\* How many applications create_app may construct in one behaviour.
MaxApps == 3

\* How many of the four services of start_services are modelled.
NumServices == 3

----------------------------------------------------------------------------
(* Routers and routes *)

\* A route has one path and a set of methods (an APIRoute).
RouteUniverse ==
    { [path |-> "/", methods |-> {"GET"}],
      [path |-> "/settings", methods |-> {"POST"}],
      [path |-> "/", methods |-> {"GET", "DELETE"}] }

\* The default routers; each declares a prefix of its own.
API_ROUTERS ==
    << [name |-> "api.flows.router", prefix |-> "/flows",
        routes |-> { [path |-> "/", methods |-> {"GET"}] }],
       [name |-> "api.admin.router", prefix |-> "/admin",
        routes |-> { [path |-> "/", methods |-> {"GET"}],
                     [path |-> "/settings", methods |-> {"POST"}] }],
       [name |-> "api.logs.router", prefix |-> "/logs",
        routes |-> { [path |-> "/", methods |-> {"GET"}] }] >>

DefaultPrefixes == { API_ROUTERS[i].prefix : i \in 1..Len(API_ROUTERS) }

\* Prefixes a caller may name: the defaults and one no default router declares.
PrefixUniverse == DefaultPrefixes \cup {"/extra"}

\* The value None of Optional[APIRouter].
None == [name |-> "None", prefix |-> "None", routes |-> {}]

\* The route lists of the routers a caller may supply: none, the entries of
\* one default router or the other, and lists with an entry no default has.
ReplacementRoutes ==
    { rs \in SUBSET RouteUniverse :
        rs # {} => \/ [path |-> "/", methods |-> {"GET"}] \in rs
                   \/ [path |-> "/", methods |-> {"GET", "DELETE"}] \in rs }
        \ { RouteUniverse,
            { [path |-> "/", methods |-> {"GET"}],
              [path |-> "/", methods |-> {"GET", "DELETE"}] } }

\* The prefixes the supplied routers declare.
ReplacementPrefixes == {"/flows", "/admin", "/extra"}

\* Routers a caller may supply as replacements.
CustomRouters ==
    { [name |-> "custom", prefix |-> p, routes |-> rs] :
        p \in ReplacementPrefixes, rs \in ReplacementRoutes }

\* method_paths_from_routes(routes): the set of (method, path) of the routes.
method_paths_from_routes(routes) ==
    UNION { { <<m, r.path>> : m \in r.methods } : r \in routes }

----------------------------------------------------------------------------
(* Ordered dicts, as sequences of <<key, value>> *)

DictKeys(d) == { d[i][1] : i \in 1..Len(d) }

DictIndex(d, k) == CHOOSE i \in 1..Len(d) : d[i][1] = k

DictGet(d, k) == d[DictIndex(d, k)][2]

\* d.pop(k): the entry leaves the dict, the order of the others is kept.
DictPop_Keep(d, k) == d

DictPop_Last(d, k) == SubSeq(d, 1, Len(d) - 1)

DictPop(d, k) == SelectSeq(d, LAMBDA e : e[1] # k)

\* d[k] = v: an existing key keeps its position, a new key goes last.
DictSet_Front(d, k, v) == <<<<k, v>>>> \o SelectSeq(d, LAMBDA e : e[1] # k)

DictSet(d, k, v) ==
    IF k \in DictKeys(d)
    THEN [i \in 1..Len(d) |-> IF d[i][1] = k THEN <<k, v>> ELSE d[i]]
    ELSE Append(d, <<k, v>>)

RECURSIVE DictFromRouters(_, _)
\* {router.prefix: router for router in rs}, built left to right.
DictFromRouters(rs, d) ==
    IF rs = <<>> THEN d
    ELSE DictFromRouters(Tail(rs), DictSet(d, Head(rs).prefix, Head(rs)))

DictValues(d) == [i \in 1..Len(d) |-> d[i][2]]

\* All override mappings of at most n entries: sequences with distinct keys.
RECURSIVE OverrideMaps(_)
OverrideMaps(n) ==
    IF n = 0 THEN { <<>> }
    ELSE LET shorter == OverrideMaps(n - 1)
         IN  shorter \cup
             { Append(m, <<p, v>>) :
                 m \in { s \in shorter : Len(s) = n - 1 },
                 p \in PrefixUniverse,
                 v \in CustomRouters \cup {None} }

WellFormedMap(m) == \A i, j \in 1..Len(m) : m[i][1] = m[j][1] => i = j

----------------------------------------------------------------------------
(* create_orion_api *)

NoError == [kind |-> "none", prefix |-> "", missing |-> {}]

KeyError_AsValueError(prefix) ==
    [kind |-> "ValueError: different prefix", prefix |-> prefix, missing |-> {}]

KeyError(prefix) == [kind |-> "KeyError", prefix |-> prefix, missing |-> {}]

PrefixValueError(prefix) ==
    [kind |-> "ValueError: different prefix", prefix |-> prefix, missing |-> {}]

MissingPathsError(prefix, missing) ==
    [kind |-> "ValueError: missing paths", prefix |-> prefix, missing |-> missing]

\* create_orion_api before any call, for the specifications of the other parts.
ApiQuiet ==
    /\ router_overrides = <<>>
    /\ api_pc = "start"
    /\ ov_index = 0
    /\ routers = <<>>
    /\ included = <<>>
    /\ api_error = NoError

InitApi ==
    /\ router_overrides \in { m \in OverrideMaps(MaxOverrides) : WellFormedMap(m) }
    /\ api_pc = "start"
    /\ ov_index = 0
    /\ routers = <<>>
    /\ included = <<>>
    /\ api_error = NoError

\* Lines 148-163: the app object is made, the registry is built from the
\* defaults, and an empty or absent override mapping skips the loop.
ApiBuildRegistry ==
    /\ api_pc = "start"
    /\ routers' = DictFromRouters(API_ROUTERS, <<>>)
    /\ api_pc' = IF Len(router_overrides) > 0 THEN "overrides" ELSE "include"
    /\ UNCHANGED <<router_overrides, ov_index, included, api_error>>

\* Line 190: existing_paths.issubset(new_paths).
ReplacementAccepted_NoCheck(existing_router, router) == TRUE

ReplacementAccepted(existing_router, router) ==
    method_paths_from_routes(existing_router.routes)
        \subseteq method_paths_from_routes(router.routes)

\* Line 193: existing_paths.difference(new_paths).
MissingPaths_Reversed(existing_router, router) ==
    method_paths_from_routes(router.routes)
        \ method_paths_from_routes(existing_router.routes)

MissingPaths(existing_router, router) ==
    method_paths_from_routes(existing_router.routes)
        \ method_paths_from_routes(router.routes)

\* Where the call goes after an entry: a raise leaves the function at once,
\* otherwise the loop goes on or, after the last entry, falls through to
\* the inclusion of the routers.
PcAfterEntry_Continue(error, last) ==
    IF last THEN "include" ELSE "overrides"

PcAfterEntry(error, last) ==
    IF error # NoError THEN "raised"
    ELSE IF last THEN "include" ELSE "overrides"

\* Lines 164-196: one iteration of the loop over router_overrides.items().
ApiOverrideEntry ==
    /\ api_pc = "overrides"
    /\ ov_index < Len(router_overrides)
    /\ LET prefix == router_overrides[ov_index + 1][1]
           router == router_overrides[ov_index + 1][2]
           last   == ov_index + 1 = Len(router_overrides)
       IN  /\ \/ /\ prefix \notin DictKeys(routers)
                 /\ api_error' = KeyError(prefix)
                 /\ UNCHANGED routers
              \/ /\ prefix \in DictKeys(routers)
                 /\ router = None
                 /\ routers' = DictPop(routers, prefix)
                 /\ UNCHANGED api_error
              \/ /\ prefix \in DictKeys(routers)
                 /\ router # None
                 /\ prefix # router.prefix
                 /\ routers' = DictPop(routers, prefix)
                 /\ api_error' = PrefixValueError(prefix)
              \/ /\ prefix \in DictKeys(routers)
                 /\ router # None
                 /\ prefix = router.prefix
                 /\ ~ReplacementAccepted(DictGet(routers, prefix), router)
                 /\ routers' = DictPop(routers, prefix)
                 /\ api_error' =
                       MissingPathsError(prefix,
                           MissingPaths(DictGet(routers, prefix), router))
              \/ /\ prefix \in DictKeys(routers)
                 /\ router # None
                 /\ prefix = router.prefix
                 /\ ReplacementAccepted(DictGet(routers, prefix), router)
                 /\ routers' = DictSet(DictPop(routers, prefix), prefix, router)
                 /\ UNCHANGED api_error
           /\ api_pc' = PcAfterEntry(api_error', last)
           /\ ov_index' = IF api_error' # NoError THEN ov_index ELSE ov_index + 1
    /\ UNCHANGED <<router_overrides, included>>

ApiIncludeRouters_Defaults ==
    /\ api_pc = "include"
    /\ included' = API_ROUTERS
    /\ api_pc' = "returned"
    /\ UNCHANGED <<router_overrides, ov_index, routers, api_error>>

\* Lines 198-201: every router left in the registry is included, in the
\* order of routers.values(), and the app is returned.
ApiIncludeRouters ==
    /\ api_pc = "include"
    /\ included' = DictValues(routers)
    /\ api_pc' = "returned"
    /\ UNCHANGED <<router_overrides, ov_index, routers, api_error>>

NextApi ==
    \/ (ApiBuildRegistry /\ UNCHANGED <<svc_vars, cache_vars>>)
    \/ (ApiOverrideEntry /\ UNCHANGED <<svc_vars, cache_vars>>)
    \/ (ApiIncludeRouters /\ UNCHANGED <<svc_vars, cache_vars>>)

----------------------------------------------------------------------------
(* The services of one application: start_services, stop_services,         *)
(* on_service_exit, and the steps of the event loop that run the service   *)
(* coroutines.                                                             *)

\* The services start_services may instantiate, in the order it appends them.
AllServices == <<"Scheduler", "MarkLateRuns", "Telemetry", "FlowRunNotifications">>

ServiceOrder == SubSeq(AllServices, 1, NumServices)

Services == { ServiceOrder[i] : i \in 1..Len(ServiceOrder) }

\* A Service is opaque to the supervisor: a start operation that runs until
\* it is stopped or fails, and a stop operation that requests termination.
StartKinds == {"runs_until_stopped", "raises_at_start", "raises_when_stopped"}

StopKinds == {"acks", "raises"}

UnsetServices == [kind |-> "unset", keys |-> <<>>]

NoneServices == [kind |-> "None", keys |-> <<>>]

DictServices(keys) == [kind |-> "dict", keys |-> keys]

\* The truth value `if app.state.services:` tests: None and {} are false.
Truthy_NotNone(handle) == handle.kind = "dict"

Truthy(handle) == handle.kind = "dict" /\ Len(handle.keys) > 0

Launched == { app_services.keys[i] : i \in 1..Len(app_services.keys) }

TaskDone(s) == task[s] \in {"done_ok", "done_err"}

SvcQuiet ==
    /\ ephemeral = FALSE
    /\ enabled = {}
    /\ start_kind = [s \in Services |-> "runs_until_stopped"]
    /\ stop_kind = [s \in Services |-> "acks"]
    /\ svc_pc = "startup"
    /\ startup_done = <<>>
    /\ observer_raised = {}
    /\ app_services = UnsetServices
    /\ task = [s \in Services |-> "none"]
    /\ callback_attached = [s \in Services |-> FALSE]
    /\ stop = [s \in Services |-> "none"]
    /\ stop_requested = [s \in Services |-> FALSE]
    /\ log = [s \in Services |-> <<>>]

\* The application as create_app returns it (lines 363-372): nothing has
\* run yet.  The settings and the behaviour of the services are inputs.
InitSvc ==
    /\ ephemeral \in BOOLEAN
    /\ enabled \in SUBSET Services
    /\ start_kind \in [Services -> StartKinds]
    /\ stop_kind \in [Services -> StopKinds]
    /\ \A s \in Services :
          (ephemeral \/ s \notin enabled)
              => (start_kind[s] = "runs_until_stopped" /\ stop_kind[s] = "acks")
    /\ svc_pc = "startup"
    /\ startup_done = <<>>
    /\ observer_raised = {}
    /\ app_services = UnsetServices
    /\ task = [s \in Services |-> "none"]
    /\ callback_attached = [s \in Services |-> FALSE]
    /\ stop = [s \in Services |-> "none"]
    /\ stop_requested = [s \in Services |-> FALSE]
    /\ log = [s \in Services |-> <<>>]

\* Lines 366-370: the on_startup list.  The lifespan of the server runs the
\* actions one after the other, each to completion; an action that raises
\* fails the startup and the on_shutdown list is then not run.
OnStartup_ServicesFirst == <<"start_services", "run_migrations", "add_block_types">>

OnStartup == <<"run_migrations", "add_block_types", "start_services">>

\* The startup action that is next to run.
NextStartup ==
    IF Len(startup_done) < Len(OnStartup)
    THEN OnStartup[Len(startup_done) + 1]
    ELSE "none"

\* The position once the action that is running has completed.
PcAfterStartup ==
    IF Len(startup_done) + 1 = Len(OnStartup) THEN "started" ELSE "startup"

\* Lines 259-265.  db.create_db() may raise.
RunMigrations ==
    /\ svc_pc = "startup"
    /\ NextStartup = "run_migrations"
    /\ \/ /\ startup_done' = Append(startup_done, "run_migrations")
          /\ svc_pc' = PcAfterStartup
       \/ /\ svc_pc' = "startup_failed"
          /\ UNCHANGED startup_done
    /\ UNCHANGED <<observer_raised, ephemeral, enabled, start_kind, stop_kind, app_services,
                   task, callback_attached, stop, stop_requested, log>>

\* Lines 267-302.  An IntegrityError of one block is swallowed (lines
\* 301-302); any other error raises out of the action.
AddBlockTypes ==
    /\ svc_pc = "startup"
    /\ NextStartup = "add_block_types"
    /\ \/ /\ startup_done' = Append(startup_done, "add_block_types")
          /\ svc_pc' = PcAfterStartup
       \/ /\ svc_pc' = "startup_failed"
          /\ UNCHANGED startup_done
    /\ UNCHANGED <<observer_raised, ephemeral, enabled, start_kind, stop_kind, app_services,
                   task, callback_attached, stop, stop_requested, log>>

\* Lines 311-327: the instances, in the order they are appended.
ServiceInstances == SelectSeq(ServiceOrder, LAMBDA s : s \in enabled)

StartServices_IgnoresEphemeral ==
    /\ svc_pc = "startup"
    /\ NextStartup = "start_services"
    /\ startup_done' = Append(startup_done, "start_services")
    /\ svc_pc' = PcAfterStartup
    /\ app_services' = DictServices(ServiceInstances)
    /\ task' = [s \in Services |-> IF s \in enabled THEN "pending" ELSE task[s]]
    /\ callback_attached' = [s \in Services |->
                  IF s \in enabled THEN TRUE ELSE callback_attached[s]]
    /\ UNCHANGED <<observer_raised, ephemeral, enabled, start_kind, stop_kind,
                   stop, stop_requested, log>>

StartServices_NoObserver ==
    /\ svc_pc = "startup"
    /\ NextStartup = "start_services"
    /\ startup_done' = Append(startup_done, "start_services")
    /\ svc_pc' = PcAfterStartup
    /\ IF ephemeral
       THEN /\ app_services' = NoneServices
            /\ UNCHANGED <<task, callback_attached>>
       ELSE /\ app_services' = DictServices(ServiceInstances)
            /\ task' = [s \in Services |->
                          IF s \in enabled THEN "pending" ELSE task[s]]
            /\ UNCHANGED callback_attached
    /\ UNCHANGED <<observer_raised, ephemeral, enabled, start_kind, stop_kind,
                   stop, stop_requested, log>>

\* Lines 304-337.  The function has no await: the tasks are created and
\* the callbacks attached in one step of the loop.
StartServices ==
    /\ svc_pc = "startup"
    /\ NextStartup = "start_services"
    /\ startup_done' = Append(startup_done, "start_services")
    /\ svc_pc' = PcAfterStartup
    /\ IF ephemeral
       THEN /\ app_services' = NoneServices
            /\ UNCHANGED <<task, callback_attached>>
       ELSE /\ app_services' = DictServices(ServiceInstances)
            /\ task' = [s \in Services |->
                          IF s \in enabled THEN "pending" ELSE task[s]]
            /\ callback_attached' = [s \in Services |->
                          IF s \in enabled THEN TRUE ELSE callback_attached[s]]
    /\ UNCHANGED <<observer_raised, ephemeral, enabled, start_kind, stop_kind,
                   stop, stop_requested, log>>

\* The loop runs a created task for the first time: service.start() begins
\* and either raises at once or keeps running.
TaskFirstRun(s) ==
    /\ task[s] = "pending"
    /\ task' = [task EXCEPT ![s] =
                   IF start_kind[s] = "raises_at_start" THEN "done_err" ELSE "running"]
    /\ UNCHANGED <<observer_raised, ephemeral, enabled, start_kind, stop_kind, svc_pc, startup_done, app_services,
                   callback_attached, stop, stop_requested, log>>

\* A running service that was asked to stop ends: its start() returns, or
\* raises on its way out.
TaskEnds(s) ==
    /\ task[s] = "running"
    /\ stop_requested[s]
    /\ task' = [task EXCEPT ![s] =
                   IF start_kind[s] = "raises_when_stopped" THEN "done_err" ELSE "done_ok"]
    /\ UNCHANGED <<observer_raised, ephemeral, enabled, start_kind, stop_kind, svc_pc, startup_done, app_services,
                   callback_attached, stop, stop_requested, log>>

\* A task that has not finished is cancelled: the event loop is shut down
\* after stop_services has ended, and stop_services waited for no task.
CancelTask(s) ==
    /\ svc_pc \in {"stop_returned", "stop_raised"}
    /\ task[s] \in {"pending", "running"}
    /\ task' = [task EXCEPT ![s] = "cancelled"]
    /\ UNCHANGED <<observer_raised, ephemeral, enabled, start_kind, stop_kind, svc_pc, startup_done, app_services,
                   callback_attached, stop, stop_requested, log>>

\* The task is in a final state: the loop then calls its done callbacks.
TaskFinal(s) == TaskDone(s) \/ task[s] = "cancelled"

OnServiceExit_IgnoresResult(s) ==
    /\ TaskFinal(s)
    /\ callback_attached[s]
    /\ log[s] = <<>>
    /\ s \notin observer_raised
    /\ log' = [log EXCEPT ![s] = Append(@, "stopped")]
    /\ UNCHANGED <<observer_raised, ephemeral, enabled, start_kind, stop_kind, svc_pc, startup_done, app_services,
                   task, callback_attached, stop, stop_requested>>

\* Lines 351-361: the done callback of a finished task, run once by the loop.
\* task.result() returns, raises the exception of the task, or raises
\* CancelledError for a cancelled task.  CancelledError is an Exception up
\* to Python 3.7, and `except Exception` (line 358) then logs the failure;
\* from Python 3.8 it is a BaseException, no clause catches it, and it
\* leaves on_service_exit before anything is logged.
OnServiceExit(s) ==
    /\ TaskFinal(s)
    /\ callback_attached[s]
    /\ log[s] = <<>>
    /\ s \notin observer_raised
    /\ \/ /\ task[s] = "done_ok"
          /\ log' = [log EXCEPT ![s] = Append(@, "stopped")]
          /\ UNCHANGED observer_raised
       \/ /\ task[s] = "done_err"
          /\ log' = [log EXCEPT ![s] = Append(@, "failed")]
          /\ UNCHANGED observer_raised
       \/ /\ task[s] = "cancelled"
          /\ \/ /\ log' = [log EXCEPT ![s] = Append(@, "failed")]
                /\ UNCHANGED observer_raised
             \/ /\ observer_raised' = observer_raised \cup {s}
                /\ UNCHANGED log
    /\ UNCHANGED <<ephemeral, enabled, start_kind, stop_kind, svc_pc, startup_done, app_services,
                   task, callback_attached, stop, stop_requested>>

\* Lines 339-342: stop_services begins.  With no services (None or an empty
\* dict) it returns at once; otherwise the first gather schedules one
\* service.stop() per key of the dict and stop_services is suspended.
StopServicesBegin ==
    /\ svc_pc = "started"
    /\ IF Truthy(app_services)
       THEN /\ svc_pc' = "stop_gather"
            /\ stop' = [s \in Services |-> IF s \in Launched THEN "pending" ELSE stop[s]]
       ELSE /\ svc_pc' = "stop_returned"
            /\ UNCHANGED stop
    /\ UNCHANGED <<observer_raised, ephemeral, enabled, start_kind, stop_kind, startup_done, app_services,
                   task, callback_attached, stop_requested, log>>

\* The loop runs one service.stop(): it makes the request and returns, or
\* it raises.
ServiceStopRuns(s) ==
    /\ stop[s] = "pending"
    /\ \/ /\ stop_kind[s] = "acks"
          /\ stop' = [stop EXCEPT ![s] = "acked"]
          /\ stop_requested' = [stop_requested EXCEPT ![s] = TRUE]
       \/ /\ stop_kind[s] = "raises"
          /\ stop' = [stop EXCEPT ![s] = "raised"]
          /\ UNCHANGED stop_requested
    /\ UNCHANGED <<observer_raised, ephemeral, enabled, start_kind, stop_kind, svc_pc, startup_done, app_services,
                   task, callback_attached, log>>

\* asyncio.Task has no attribute `stop`: building the argument list of the
\* second gather (line 345) raises AttributeError at the first task, inside
\* the try, and `except Exception: pass` swallows it (lines 347-349).  The
\* second gather is never awaited.
SecondGatherAwaitsTasks == FALSE

\* Lines 342-349: stop_services resumes from the first gather.  The gather
\* raises the first exception of a stop() as soon as there is one, outside
\* any try; when every stop() has returned, the second wait follows.
StopServicesResume ==
    /\ svc_pc = "stop_gather"
    /\ \/ /\ \E s \in Launched : stop[s] = "raised"
          /\ svc_pc' = "stop_raised"
       \/ /\ \A s \in Launched : stop[s] = "acked"
          /\ SecondGatherAwaitsTasks => \A s \in Launched : TaskDone(s)
          /\ svc_pc' = "stop_returned"
    /\ UNCHANGED <<observer_raised, ephemeral, enabled, start_kind, stop_kind, startup_done, app_services,
                   task, callback_attached, stop, stop_requested, log>>

NextSvc ==
    \/ (RunMigrations /\ UNCHANGED <<api_vars, cache_vars>>)
    \/ (AddBlockTypes /\ UNCHANGED <<api_vars, cache_vars>>)
    \/ (StartServices /\ UNCHANGED <<api_vars, cache_vars>>)
    \/ (\E s \in Services : TaskFirstRun(s) /\ UNCHANGED <<api_vars, cache_vars>>)
    \/ (\E s \in Services : TaskEnds(s) /\ UNCHANGED <<api_vars, cache_vars>>)
    \/ (\E s \in Services : OnServiceExit(s) /\ UNCHANGED <<api_vars, cache_vars>>)
    \/ (StopServicesBegin /\ UNCHANGED <<api_vars, cache_vars>>)
    \/ (\E s \in Services : ServiceStopRuns(s) /\ UNCHANGED <<api_vars, cache_vars>>)
    \/ (StopServicesResume /\ UNCHANGED <<api_vars, cache_vars>>)

----------------------------------------------------------------------------
(* create_app and APP_CACHE *)

\* Settings objects a caller may pass: objects 1 and 2 are distinct and
\* compare equal, object 3 differs from both.
SettingsObjects ==
    { [id |-> 1, value |-> "A"], [id |-> 2, value |-> "A"], [id |-> 3, value |-> "B"] }

\* The default settings=None.
NoSettings == [id |-> 0, value |-> "None"]

SettingsValues == { o.value : o \in SettingsObjects }

\* Line 251: settings or get_current_settings().
ResolveSettings(settings, current) ==
    IF settings = NoSettings THEN current ELSE settings

\* Line 252, as the dict sees it: a tuple is looked up by the equality and
\* the hash of its members, and Settings compare by value.
CacheKey_ByIdentity(settings, eph) == <<settings.id, eph>>

CacheKey(settings, eph) == <<settings.value, eph>>

NoCall ==
    [settings |-> NoSettings, resolved |-> NoSettings, ephemeral |-> FALSE,
     ignore_cache |-> FALSE, outcome |-> "none", app |-> 0]

InitCache ==
    /\ APP_CACHE = <<>>
    /\ apps_built = 0
    /\ last_call = NoCall
    /\ last_plain = [k \in SettingsValues \X BOOLEAN |-> 0]
    /\ serving = {}

CacheQuiet == InitCache

\* What the call leaves for later calls to be compared with.
Remember(call) ==
    LET k == <<call.resolved.value, call.ephemeral>>
    IN  IF call.ignore_cache THEN [last_plain EXCEPT ![k] = 0]
        ELSE IF call.outcome = "returned" THEN [last_plain EXCEPT ![k] = call.app]
        ELSE last_plain

\* The applications APP_CACHE holds.
CachedApps(cache) == { cache[i][2] : i \in 1..Len(cache) }

\* Line 426: APP_CACHE[cache_key] = app, the last statement before return.
CacheAfterBuild_NoStore(cache, cache_key, app) == cache

CacheAfterBuild(cache, cache_key, app) == DictSet(cache, cache_key, app)

\* Lines 363-425 hold no statement that writes APP_CACHE: a call that
\* raises there leaves the cache as it found it.
CacheAfterRaise_Stored(cache, cache_key, app) == DictSet(cache, cache_key, app)

CacheAfterRaise(cache, cache_key, app) == cache

\* Lines 363-427 hold no call on the application the cache held for the
\* key: the applications that serve go on serving.
ServingAfterBuild_StopsSuperseded(cache, cache_key) ==
    IF cache_key \in DictKeys(cache)
    THEN serving \ {DictGet(cache, cache_key)}
    ELSE serving

ServingAfterBuild(cache, cache_key) == serving

\* Lines 251-427: one call of create_app.  The function is synchronous: it
\* has no await, so on one event loop a call runs from its lookup to its
\* store, or to its raise, without any other task running in between.
CreateApp(settings, current, eph, ignore_cache) ==
    LET resolved  == ResolveSettings(settings, current)
        cache_key == CacheKey(resolved, eph)
        call(outcome, app) ==
            [settings |-> settings, resolved |-> resolved, ephemeral |-> eph,
             ignore_cache |-> ignore_cache, outcome |-> outcome, app |-> app]
    IN  \/ \* lines 254-255: a hit
           /\ cache_key \in DictKeys(APP_CACHE)
           /\ ~ignore_cache
           /\ last_call' = call("returned", DictGet(APP_CACHE, cache_key))
           /\ last_plain' = Remember(last_call')
           /\ UNCHANGED <<APP_CACHE, apps_built, serving>>
        \/ \* lines 363-427: the application is built and stored
           /\ ~(cache_key \in DictKeys(APP_CACHE) /\ ~ignore_cache)
           /\ apps_built < MaxApps
           /\ apps_built' = apps_built + 1
           /\ APP_CACHE' = CacheAfterBuild(APP_CACHE, cache_key, apps_built + 1)
           /\ last_call' = call("returned", apps_built + 1)
           /\ last_plain' = Remember(last_call')
           /\ serving' = ServingAfterBuild(APP_CACHE, cache_key)
        \/ \* lines 363-403: the assembly raises after the object was made
           /\ ~(cache_key \in DictKeys(APP_CACHE) /\ ~ignore_cache)
           /\ apps_built < MaxApps
           /\ apps_built' = apps_built + 1
           /\ APP_CACHE' = CacheAfterRaise(APP_CACHE, cache_key, apps_built + 1)
           /\ last_call' = call("raised", 0)
           /\ last_plain' = Remember(last_call')
           /\ UNCHANGED serving

\* Lines 366-370: the server that obtained a cached application runs its
\* on_startup list; start_services has then started its services.
AppStartup(a) ==
    /\ a \in CachedApps(APP_CACHE)
    /\ a \notin serving
    /\ serving' = serving \cup {a}
    /\ UNCHANGED <<APP_CACHE, apps_built, last_call, last_plain>>

\* Line 371: the server runs on_shutdown; stop_services asks the services
\* of that application to stop.
AppShutdown(a) ==
    /\ a \in serving
    /\ serving' = serving \ {a}
    /\ UNCHANGED <<APP_CACHE, apps_built, last_call, last_plain>>

\* Line 251 reads the settings of the context only when none are passed.
ContextsFor(settings) ==
    IF settings = NoSettings THEN SettingsObjects ELSE {settings}

NextCache ==
    \/ \E settings \in SettingsObjects \cup {NoSettings},
          eph \in BOOLEAN, ignore_cache \in BOOLEAN :
           \E current \in ContextsFor(settings) :
               CreateApp(settings, current, eph, ignore_cache)
                   /\ UNCHANGED <<api_vars, svc_vars>>
    \/ \E a \in 1..MaxApps : AppStartup(a) /\ UNCHANGED <<api_vars, svc_vars>>
    \/ \E a \in 1..MaxApps : AppShutdown(a) /\ UNCHANGED <<api_vars, svc_vars>>

vars == <<api_vars, svc_vars, cache_vars>>

\* One call of create_orion_api, for every override mapping within the bound.
ApiInit == InitApi /\ SvcQuiet /\ CacheQuiet

SpecApi == ApiInit /\ [][NextApi]_vars

\* The lifespan of one application, for every setting and service behaviour.
SvcInit == InitSvc /\ ApiQuiet /\ CacheQuiet

SpecSvc == SvcInit /\ [][NextSvc]_vars

\* The lifespan of one application followed by the shutdown of the event
\* loop, which cancels the tasks that have not finished.
NextSvcCancel ==
    \/ NextSvc
    \/ (\E s \in Services : CancelTask(s) /\ UNCHANGED <<api_vars, cache_vars>>)

SpecSvcCancel == SvcInit /\ [][NextSvcCancel]_vars

\* Any sequence of create_app calls on an empty cache.
CacheInit == InitCache /\ ApiQuiet /\ SvcQuiet

SpecCache == CacheInit /\ [][NextCache]_vars

----------------------------------------------------------------------------
(* Vocabulary of the claims about create_orion_api.  The entries of the    *)
(* override mapping are judged here against the default list alone.        *)

ApiTerminal == api_pc \in {"returned", "raised"}

OvLen == Len(router_overrides)

OvPrefix(i) == router_overrides[i][1]

OvRouter(i) == router_overrides[i][2]

DefaultRouter(prefix) ==
    API_ROUTERS[CHOOSE k \in 1..Len(API_ROUTERS) : API_ROUTERS[k].prefix = prefix]

Entries(router) == method_paths_from_routes(router.routes)

IsUnknownPrefix(i) == OvPrefix(i) \notin DefaultPrefixes

IsDrop(i) == OvPrefix(i) \in DefaultPrefixes /\ OvRouter(i) = None

IsReplacement(i) == OvPrefix(i) \in DefaultPrefixes /\ OvRouter(i) # None

IsPrefixMismatch(i) == IsReplacement(i) /\ OvRouter(i).prefix # OvPrefix(i)

\* A replacement for an existing prefix, declaring that prefix, that lacks
\* at least one entry of the original router.
IsRegression(i) ==
    /\ IsReplacement(i)
    /\ OvRouter(i).prefix = OvPrefix(i)
    /\ Entries(DefaultRouter(OvPrefix(i))) \ Entries(OvRouter(i)) # {}

IsInvalid(i) == IsUnknownPrefix(i) \/ IsPrefixMismatch(i) \/ IsRegression(i)

FirstInvalid(i) == IsInvalid(i) /\ \A j \in 1..(i - 1) : ~IsInvalid(j)

IncludedFor(prefix) ==
    { included[k] : k \in { n \in 1..Len(included) : included[n].prefix = prefix } }

----------------------------------------------------------------------------
(* C4 *)

\* C4 as stated: whenever the mapping contains a regressing replacement,
\* the call fails with the regression error, and the error names exactly
\* original entries minus replacement entries of such a replacement.
C4_AsStated ==
    (ApiTerminal /\ \E i \in 1..OvLen : IsRegression(i))
        => \E i \in 1..OvLen :
              /\ IsRegression(i)
              /\ api_pc = "raised"
              /\ api_error =
                    MissingPathsError(OvPrefix(i),
                        Entries(DefaultRouter(OvPrefix(i))) \ Entries(OvRouter(i)))

\* C4, amended: a mapping that contains a regressing replacement always
\* makes create_orion_api fail; when the regressing replacement is the first
\* invalid entry in the mapping's iteration order, the failure is the
\* regression error for its prefix and names exactly the set difference
\* original entries minus replacement entries.
C4_RegressionNamesDifference ==
    (ApiTerminal /\ \E i \in 1..OvLen : IsRegression(i))
        => /\ api_pc = "raised"
           /\ \A i \in 1..OvLen :
                (IsRegression(i) /\ FirstInvalid(i))
                    => api_error =
                          MissingPathsError(OvPrefix(i),
                              Entries(DefaultRouter(OvPrefix(i)))
                                  \ Entries(OvRouter(i)))

\* A regression is reported after a valid entry was applied, for a
\* replacement that has an entry the original has not.
C4_Witness ==
    /\ api_pc = "raised"
    /\ ov_index = 1
    /\ IsRegression(2)
    /\ api_error.kind = "ValueError: missing paths"
    /\ api_error.missing = { <<"POST", "/settings">> }
    /\ Entries(OvRouter(2)) \ Entries(DefaultRouter(OvPrefix(2))) # {}

----------------------------------------------------------------------------
(* C5 *)

\* Each declared replacement has strictly more entries than the default
\* router of its key.
AllReplacementsStrictSupersets ==
    \A i \in 1..OvLen :
        OvRouter(i) # None
            => /\ OvPrefix(i) \in DefaultPrefixes
               /\ Entries(DefaultRouter(OvPrefix(i))) \subseteq Entries(OvRouter(i))
               /\ Entries(DefaultRouter(OvPrefix(i))) # Entries(OvRouter(i))

ReplacementsServed ==
    /\ api_pc = "returned"
    /\ \A i \in 1..OvLen :
          OvRouter(i) # None
              => /\ DictGet(routers, OvPrefix(i)) = OvRouter(i)
                 /\ IncludedFor(OvPrefix(i)) = { OvRouter(i) }

\* C5 as stated: strict-superset replacements alone make the call succeed
\* and be served.
C5_AsStated ==
    (ApiTerminal /\ AllReplacementsStrictSupersets) => ReplacementsServed

\* C5, amended: when every key of the mapping is an existing prefix, each
\* declared replacement declares the prefix of its key and its entry set is
\* a strict superset of the original's, create_orion_api succeeds and for
\* each overridden prefix the registry entry and the only router included
\* is the replacement.
C5_SupersetsServed ==
    (/\ ApiTerminal
     /\ AllReplacementsStrictSupersets
     /\ \A i \in 1..OvLen : OvPrefix(i) \in DefaultPrefixes
     /\ \A i \in 1..OvLen : OvRouter(i) # None => OvRouter(i).prefix = OvPrefix(i))
        => ReplacementsServed

\* Two strict supersets were applied and the app returned.
C5_Witness ==
    /\ api_pc = "returned"
    /\ OvLen = 2
    /\ AllReplacementsStrictSupersets
    /\ \A i \in 1..OvLen : OvRouter(i) # None
    /\ \A i \in 1..OvLen : IncludedFor(OvPrefix(i)) = {OvRouter(i)}
    /\ Len(included) = Len(API_ROUTERS)

----------------------------------------------------------------------------
(* C6 *)

\* C6 as stated: an accepted replacement is always a strict superset.
C6_AsStated ==
    api_pc = "returned"
        => \A i \in 1..OvLen :
              IsReplacement(i)
                  => /\ Entries(DefaultRouter(OvPrefix(i))) \subseteq Entries(OvRouter(i))
                     /\ Entries(DefaultRouter(OvPrefix(i))) # Entries(OvRouter(i))

\* C6, amended: create_orion_api accepts a replacement router only if its
\* set of (method, path) entries is a superset of, or equal to, the set of
\* the router it replaces; every replacement lacking an entry is rejected.
C6_OnlySupersetsAccepted ==
    /\ api_pc = "returned"
          => \A i \in 1..OvLen :
                IsReplacement(i)
                    => Entries(DefaultRouter(OvPrefix(i))) \subseteq Entries(OvRouter(i))
    /\ (ApiTerminal /\ \E i \in 1..OvLen :
                          /\ IsReplacement(i)
                          /\ ~(Entries(DefaultRouter(OvPrefix(i)))
                                  \subseteq Entries(OvRouter(i))))
          => api_pc = "raised"

\* A replacement with exactly the original's entries was accepted.
C6_Witness ==
    /\ api_pc = "returned"
    /\ \E i \in 1..OvLen :
          /\ IsReplacement(i)
          /\ Entries(DefaultRouter(OvPrefix(i))) = Entries(OvRouter(i))
          /\ DictGet(routers, OvPrefix(i)) = OvRouter(i)

----------------------------------------------------------------------------
(* C7 *)

\* C7 as stated: a mapping naming an unknown prefix always fails with the
\* unknown-prefix error.
C7_AsStated ==
    (ApiTerminal /\ \E i \in 1..OvLen : IsUnknownPrefix(i))
        => (api_pc = "raised" /\ api_error.kind = "KeyError")

\* C7, amended: a mapping that names a prefix absent from the default
\* registry always makes create_orion_api fail, whatever value is supplied
\* for it; the failure is the unknown-prefix error for that prefix when no
\* entry earlier in the iteration order is invalid (otherwise the earlier
\* entry's error is raised first); the registry and the included routers
\* never hold a prefix that is not a default one.
C7_UnknownPrefixFails ==
    /\ (ApiTerminal /\ \E i \in 1..OvLen : IsUnknownPrefix(i))
          => /\ api_pc = "raised"
             /\ \A i \in 1..OvLen :
                   (IsUnknownPrefix(i) /\ FirstInvalid(i))
                       => /\ api_error.kind = "KeyError"
                          /\ api_error.prefix = OvPrefix(i)
    /\ DictKeys(routers) \subseteq DefaultPrefixes
    /\ \A k \in 1..Len(included) : included[k].prefix \in DefaultPrefixes

\* The unknown prefix came second, after a valid entry, with a router
\* supplied that even declares the unknown prefix.
C7_Witness ==
    /\ api_pc = "raised"
    /\ ov_index = 1
    /\ IsUnknownPrefix(2)
    /\ OvRouter(2) # None
    /\ OvRouter(2).prefix = OvPrefix(2)
    /\ api_error.kind = "KeyError"
    /\ api_error.prefix = OvPrefix(2)

----------------------------------------------------------------------------
(* C8 *)

\* C8: an entry that supplies None for an existing prefix is never the
\* entry the call raises at, and once it has been processed the prefix is
\* out of the registry; a call that returns has included no router for that
\* prefix, and a mapping made of such entries only always returns.
C8_NoneDropsGroup ==
    /\ \A i \in 1..OvLen :
          IsDrop(i)
              => /\ api_pc = "raised" => ov_index + 1 # i
                 /\ ov_index >= i => OvPrefix(i) \notin DictKeys(routers)
                 /\ api_pc = "returned" => IncludedFor(OvPrefix(i)) = {}
    /\ (ApiTerminal /\ \A i \in 1..OvLen : IsDrop(i)) => api_pc = "returned"

\* Two default groups were dropped and the app returned with what is left.
C8_Witness ==
    /\ api_pc = "returned"
    /\ OvLen = 2
    /\ \A i \in 1..OvLen : IsDrop(i)
    /\ Len(included) = Len(API_ROUTERS) - 2

----------------------------------------------------------------------------
(* C9 *)

\* C9: a mapping with an invalid entry makes the call raise, and a call
\* that has not returned has included no router: after a raise there is no
\* application with routers, whatever entries were processed before.
C9_NoPartialApplication ==
    /\ (ApiTerminal /\ \E i \in 1..OvLen : IsInvalid(i)) => api_pc = "raised"
    /\ api_pc = "raised" => api_error # NoError
    /\ api_pc # "returned" => included = <<>>
    /\ api_pc = "returned" => api_error = NoError

\* The call raised at the second entry after the first changed the registry.
C9_Witness ==
    /\ api_pc = "raised"
    /\ ov_index = 1
    /\ ~IsInvalid(1)
    /\ routers # DictFromRouters(API_ROUTERS, <<>>)
    /\ included = <<>>

----------------------------------------------------------------------------
(* Vocabulary of the claims about the services *)

StopServicesEntered == svc_pc \in {"stop_gather", "stop_returned", "stop_raised"}

StartServicesDone ==
    \E i \in 1..Len(startup_done) : startup_done[i] = "start_services"

\* A service that runs until it is asked to stop and whose stop() returns.
WellBehaved(s) == start_kind[s] = "runs_until_stopped" /\ stop_kind[s] = "acks"

\* The start operation of s raised as soon as its task ran.
FailedAtStart(s) ==
    /\ s \in Launched
    /\ start_kind[s] = "raises_at_start"
    /\ task[s] = "done_err"

----------------------------------------------------------------------------
(* C1 *)

\* C1: when stop_services has returned for N >= 1 started services, every
\* service has been sent its stop request and every service task is in a
\* terminal state.
C1_StopWaitsForTasks ==
    (svc_pc = "stop_returned" /\ Truthy(app_services))
        => \A s \in Launched : stop_requested[s] /\ TaskDone(s)

----------------------------------------------------------------------------
(* C2 *)

\* C2: once a service's start has raised at the first run of its task, that
\* service is Failed and the only event its observer logs is "failed" (and
\* the observer can run); start_services has launched every enabled service
\* all the same; every other, well-behaved service stays pending or running
\* until it is asked to stop and never fails; a stop_services that has begun
\* has issued a stop request to each of them and one that has returned has
\* had them acknowledged; and such a service asked to stop can end, ends
\* cleanly and is logged as stopped.
C2_FailedStartIsIsolated ==
    \A b \in Services :
        FailedAtStart(b)
            => /\ log[b] \in { <<>>, <<"failed">> }
               /\ log[b] = <<>> => ENABLED OnServiceExit(b)
               /\ StartServicesDone
               /\ Launched = enabled
               /\ \A t \in enabled : task[t] # "none" /\ callback_attached[t]
               /\ \A t \in Launched \ {b} :
                     WellBehaved(t)
                         => /\ task[t] # "done_err"
                            /\ ~stop_requested[t] => task[t] \in {"pending", "running"}
                            /\ StopServicesEntered => stop[t] \in {"pending", "acked"}
                            /\ svc_pc = "stop_returned" => stop_requested[t]
                            /\ (stop_requested[t] /\ task[t] = "running")
                                  => ENABLED TaskEnds(t)
                            /\ TaskDone(t) => log[t] \in { <<>>, <<"stopped">> }

\* Three services, the second one's start raised and was logged as failed;
\* stop_services returned and the two others ended cleanly and were logged.
C2_Witness ==
    /\ FailedAtStart(ServiceOrder[2])
    /\ log[ServiceOrder[2]] = <<"failed">>
    /\ svc_pc = "stop_returned"
    /\ \A t \in {ServiceOrder[1], ServiceOrder[3]} :
          /\ t \in Launched
          /\ WellBehaved(t)
          /\ task[t] = "done_ok"
          /\ log[t] = <<"stopped">>

----------------------------------------------------------------------------
(* C3 *)

\* C3: stop_services never raises to its caller, whatever a service's stop
\* operation or a service task does during shutdown.
C3_StopNeverRaises == svc_pc # "stop_raised"

----------------------------------------------------------------------------
(* C10 *)

\* C10: a create_app call with ignore_cache=False that returns, made when
\* an earlier call with equal settings and the same ephemeral flag has
\* returned and no ignore_cache=True call for that key came in between,
\* returns the very application the earlier call returned and constructs
\* no application object.
C10_CachedInstanceReturned ==
    [][ LET k == <<last_call'.resolved.value, last_call'.ephemeral>>
        IN  (/\ last_call'.outcome = "returned"
             /\ ~last_call'.ignore_cache
             /\ last_plain[k] # 0)
                => /\ last_call'.app = last_plain[k]
                   /\ apps_built' = apps_built
                   /\ APP_CACHE' = APP_CACHE ]_vars

\* The application built for settings object 1 was returned again for the
\* equal but distinct settings object 2, after other applications were
\* built for other keys.
C10_Witness ==
    /\ last_call.outcome = "returned"
    /\ ~last_call.ignore_cache
    /\ last_call.resolved.id = 2
    /\ last_call.app = 1
    /\ apps_built = 3
    /\ last_plain[<<"A", last_call.ephemeral>>] = 1

----------------------------------------------------------------------------
(* Vocabulary of the claims about create_app *)

\* The key of the latest call, as the claims name it: the value of the
\* resolved settings and the ephemeral flag.
KeyOf(call) == <<call.resolved.value, call.ephemeral>>

----------------------------------------------------------------------------
(* C11 *)

\* C11: a create_app call with ignore_cache=True that returns has built an
\* application that was in no cache entry before, the entry of its key now
\* holds it, the entries of all other keys are as they were, and the set of
\* applications whose services are started is unchanged: the superseded
\* application is not asked to stop.  A later call without ignore_cache
\* returns what the entry of its key holds.
C11_ForcedRebuildOverwrites ==
    [][ /\ (/\ last_call'.ignore_cache
            /\ last_call'.outcome = "returned"
            /\ apps_built' # apps_built)
              => /\ last_call'.app \notin CachedApps(APP_CACHE)
                 /\ last_call'.app \notin serving
                 /\ apps_built' = apps_built + 1
                 /\ KeyOf(last_call') \in DictKeys(APP_CACHE')
                 /\ DictGet(APP_CACHE', KeyOf(last_call')) = last_call'.app
                 /\ \A k \in SettingsValues \X BOOLEAN :
                       k # KeyOf(last_call')
                           => /\ k \in DictKeys(APP_CACHE') <=> k \in DictKeys(APP_CACHE)
                              /\ k \in DictKeys(APP_CACHE)
                                    => DictGet(APP_CACHE', k) = DictGet(APP_CACHE, k)
                 /\ serving' = serving
        /\ (/\ ~last_call'.ignore_cache
            /\ last_call'.outcome = "returned"
            /\ last_call' # last_call
            /\ KeyOf(last_call') \in DictKeys(APP_CACHE))
              => last_call'.app = DictGet(APP_CACHE, KeyOf(last_call')) ]_vars

\* The third application was built with ignore_cache=True over the first,
\* whose services are still started; the entry of another key still holds
\* the second.
C11_Witness ==
    /\ last_call.ignore_cache
    /\ last_call.outcome = "returned"
    /\ last_call.app = 3
    /\ 1 \in serving
    /\ 1 \notin CachedApps(APP_CACHE)
    /\ CachedApps(APP_CACHE) = {2, 3}

\* ------------------------------------------------------------------
\* The on_startup list as the documentation states it.
StatedStartupOrder == <<"run_migrations", "add_block_types", "start_services">>

\* Some service task has been created.
SomeTaskCreated == \E s \in Services : task[s] # "none"

\* No service is configured: the application is ephemeral, or it is not
\* and every service setting is off.
NoServicesConfigured == ephemeral \/ enabled = {}

\* C12: for an application built with ephemeral=True no service task is
\* ever created, whatever the service settings; once startup has completed
\* the service set is recorded as None; and shutdown makes no stop request:
\* stop_services never waits on a stop() and no stop() is ever called.
C12_EphemeralRunsNoServices ==
    ephemeral =>
        /\ \A s \in Services :
              /\ task[s] = "none"
              /\ ~callback_attached[s]
              /\ stop[s] = "none"
              /\ ~stop_requested[s]
        /\ StartServicesDone => app_services = NoneServices
        /\ svc_pc \notin {"stop_gather", "stop_raised"}

\* C12's case: an ephemeral application with every service setting on has
\* started and has been shut down.
C12_Witness ==
    /\ ephemeral
    /\ enabled = Services
    /\ svc_pc = "stop_returned"
    /\ app_services = NoneServices

\* C13 as the documentation states it: whenever no service is configured,
\* start_services records the same absent value, None, in both cases, and
\* stop_services short-circuits.
C13_AsStated ==
    (NoServicesConfigured /\ StartServicesDone) =>
        /\ app_services = NoneServices
        /\ svc_pc \notin {"stop_gather", "stop_raised"}

\* C13, amended: when no service is configured, start_services records None
\* for an ephemeral application and an empty dict for a non-ephemeral one
\* whose settings are all off; in both cases no task is created, and
\* stop_services short-circuits: it calls no stop() and waits for nothing.
C13_NoServicesShortCircuits ==
    (NoServicesConfigured /\ StartServicesDone) =>
        /\ app_services = IF ephemeral THEN NoneServices ELSE DictServices(<<>>)
        /\ ~SomeTaskCreated
        /\ \A s \in Services : stop[s] = "none" /\ ~stop_requested[s]
        /\ svc_pc \notin {"stop_gather", "stop_raised"}

\* C13's case: a non-ephemeral application with every service setting off
\* has started with the empty dict and has been shut down.
C13_Witness ==
    /\ ~ephemeral
    /\ enabled = {}
    /\ app_services = DictServices(<<>>)
    /\ svc_pc = "stop_returned"

\* C14: the startup actions run in the order run_migrations,
\* add_block_types, start_services, each completing before the next begins;
\* no service task exists and no service handle is set before migration and
\* block registration have completed; stop_services runs only after the
\* whole startup has completed, so the handle is set when it is read; a
\* failed startup is followed by no shutdown action.
C14_StartupOrdered ==
    /\ Len(startup_done) <= Len(StatedStartupOrder)
    /\ startup_done = SubSeq(StatedStartupOrder, 1, Len(startup_done))
    /\ (SomeTaskCreated \/ app_services # UnsetServices) => Len(startup_done) = 3
    /\ StopServicesEntered =>
          /\ startup_done = StatedStartupOrder
          /\ app_services # UnsetServices
    /\ svc_pc = "startup_failed" =>
          /\ ~SomeTaskCreated
          /\ app_services = UnsetServices
          /\ Len(startup_done) < 2

\* C14's case: the three startup actions have completed, the service tasks
\* exist, and stop_services has read the handle and waits on the stops.
C14_Witness ==
    /\ ~ephemeral
    /\ enabled = Services
    /\ startup_done = StatedStartupOrder
    /\ svc_pc = "stop_gather"
    /\ app_services = DictServices(ServiceOrder)

\* C15: start_services returns in the step in which it schedules the
\* services: at its return every configured service has a task that has not
\* run yet and that carries its observer; no state has a task without its
\* observer; and start_services is never blocked, whatever the services do.
C15_StartServicesDoesNotWait ==
    [][ /\ (/\ startup_done' # startup_done
            /\ startup_done'[Len(startup_done')] = "start_services")
              => \A s \in Services :
                    IF ~ephemeral /\ s \in enabled
                    THEN task'[s] = "pending" /\ callback_attached'[s]
                    ELSE task'[s] = "none"
        /\ \A s \in Services : task'[s] # "none" => callback_attached'[s]
        /\ (svc_pc = "startup" /\ Len(startup_done) = 2) => ENABLED StartServices
      ]_vars

\* C15's case: start_services has returned and no service has run yet.
C15_Witness ==
    /\ ~ephemeral
    /\ enabled = Services
    /\ svc_pc = "started"
    /\ \A s \in Services : task[s] = "pending" /\ callback_attached[s]

\* The event on_service_exit logs for a task that ended without error, and
\* for one that ended otherwise.
StatedEvent(s) == IF task[s] = "done_ok" THEN "stopped" ELSE "failed"

\* C18: every task that reaches a final state, by a return, by an error or
\* by cancellation, has on_service_exit log exactly one event, "stopped"
\* when the task ended without error and "failed" otherwise: the observer
\* never raises, nothing is logged for a task that has not ended, no task
\* is logged twice, and a task that has ended and is not yet logged is
\* about to be.
C18_EveryExitLoggedOnce ==
    \A s \in Services :
        /\ s \notin observer_raised
        /\ Len(log[s]) <= 1
        /\ log[s] # <<>> => (TaskFinal(s) /\ log[s] = <<StatedEvent(s)>>)
        /\ (TaskFinal(s) /\ log[s] = <<>>) => ENABLED OnServiceExit(s)

\* ------------------------------------------------------------------
\* The entries of the override mapping, without their order.
EntrySet == { router_overrides[i] : i \in 1..OvLen }

\* An entry that the checks accept, judged against the default set alone.
EntryValid(e) ==
    /\ e[1] \in DefaultPrefixes
    /\ e[2] # None =>
          /\ e[2].prefix = e[1]
          /\ Entries(DefaultRouter(e[1])) \subseteq Entries(e[2])

\* The prefix to router mapping a set of valid entries yields: a group
\* named with None is gone, a group named with a router has that router,
\* every other group has its default.
MappingOf(E) ==
    { <<p, DefaultRouter(p)>> : p \in { q \in DefaultPrefixes : \A e \in E : e[1] # q } }
        \cup { e \in E : e[2] # None }

\* The prefix to router mapping the call ended with.
RegistryMapping == { routers[i] : i \in 1..Len(routers) }

\* C16: the outcome of an override mapping depends on its entries and not
\* on their order: the call fails exactly when some entry is invalid, and a
\* call that succeeds ends with the mapping the set of entries determines,
\* which is also what it includes.  Any two orderings of the same entries
\* therefore fail together or succeed with the same mapping.
C16_OrderIndependent ==
    ApiTerminal =>
        /\ api_pc = "returned" <=> \A e \in EntrySet : EntryValid(e)
        /\ api_pc = "returned" =>
              /\ RegistryMapping = MappingOf(EntrySet)
              /\ Len(routers) = Cardinality(RegistryMapping)
              /\ { <<included[k].prefix, included[k]>> : k \in 1..Len(included) }
                    = MappingOf(EntrySet)

\* C16's case: two entries given in the reverse of the default order, a
\* drop of the second group then a replacement of the first, succeeded.
C16_Witness ==
    /\ api_pc = "returned"
    /\ OvLen = 2
    /\ OvPrefix(1) = API_ROUTERS[2].prefix
    /\ IsDrop(1)
    /\ OvPrefix(2) = API_ROUTERS[1].prefix
    /\ IsReplacement(2)
    /\ RegistryMapping = { <<API_ROUTERS[1].prefix, OvRouter(2)>>,
                           <<API_ROUTERS[3].prefix, API_ROUTERS[3]>> }

\* The default routers that no entry of the mapping names, in default order.
UntouchedDefaults ==
    SelectSeq(API_ROUTERS, LAMBDA r : \A i \in 1..OvLen : OvPrefix(i) # r.prefix)

\* The routers of the mapping's replacements, in the mapping's order.
ReplacementsInOrder ==
    SelectSeq([i \in 1..OvLen |-> OvRouter(i)], LAMBDA r : r # None)

\* The inclusion order C17 states: the default order, each replaced router
\* standing where its original stood and each dropped one left out.
InPlaceOrder ==
    SelectSeq([k \in 1..Len(API_ROUTERS) |->
                  IF \E i \in 1..OvLen : OvPrefix(i) = API_ROUTERS[k].prefix
                  THEN OvRouter(CHOOSE i \in 1..OvLen :
                                    OvPrefix(i) = API_ROUTERS[k].prefix)
                  ELSE API_ROUTERS[k]],
              LAMBDA r : r # None)

\* C17 as the documentation states it: after a successful call the
\* replacement takes the place of the original in the inclusion order.
C17_AsStated == api_pc = "returned" => included = InPlaceOrder

\* C17, amended: after a successful call the groups no entry names are
\* included first, in the order of the default set, and the replacement
\* routers follow them, in the order of the override mapping: a replaced
\* group moves to the end of the inclusion order.
C17_ReplacementsIncludedLast ==
    api_pc = "returned" => included = UntouchedDefaults \o ReplacementsInOrder

\* C17's case: the first group was replaced and is included after the two
\* other groups, which keep their default order.
C17_Witness ==
    /\ api_pc = "returned"
    /\ OvLen = 1
    /\ OvPrefix(1) = API_ROUTERS[1].prefix
    /\ IsReplacement(1)
    /\ included = <<API_ROUTERS[2], API_ROUTERS[3], OvRouter(1)>>

\* ------------------------------------------------------------------
\* The step is a create_app call that constructed an application object.
Constructed == apps_built' = apps_built + 1

\* C19: a create_app call that raises during assembly leaves APP_CACHE
\* exactly as it was before the call: no entry is added, replaced or
\* removed, whether or not the key had an entry and whether or not the
\* call was forced.
C19_RaisingCallLeavesCache ==
    [][ (Constructed /\ last_call'.outcome = "raised") => APP_CACHE' = APP_CACHE ]_vars

\* C19's case: a forced rebuild for a key that has a cached application
\* raised, and the cache still holds the earlier application for the key.
C19_Witness ==
    /\ last_call.outcome = "raised"
    /\ last_call.ignore_cache
    /\ apps_built = 2
    /\ APP_CACHE = << <<KeyOf(last_call), 1>> >>

\* C20: calls of create_app on one event loop run one after the other,
\* each from its lookup to its store.  A call without ignore_cache that
\* returns builds an application only when the cache has no entry for its
\* key, and then stores what it built under the key; no call ever removes
\* a key from the cache.  So of such calls, for one key, at most one builds:
\* every other one constructs nothing and receives the application the
\* cache holds for the key, which is the one the previous such call
\* received unless a forced call came in between.
C20_OneBuildPerKey ==
    [][ /\ DictKeys(APP_CACHE) \subseteq DictKeys(APP_CACHE')
        /\ (/\ last_call'.outcome = "returned"
            /\ ~last_call'.ignore_cache
            /\ <<last_call', apps_built', last_plain'>> # <<last_call, apps_built, last_plain>>)
              => IF Constructed
                 THEN /\ KeyOf(last_call') \notin DictKeys(APP_CACHE)
                      /\ last_plain[KeyOf(last_call')] = 0
                      /\ last_call'.app = apps_built'
                      /\ KeyOf(last_call') \in DictKeys(APP_CACHE')
                      /\ DictGet(APP_CACHE', KeyOf(last_call')) = last_call'.app
                 ELSE /\ apps_built' = apps_built
                      /\ KeyOf(last_call') \in DictKeys(APP_CACHE)
                      /\ last_call'.app = DictGet(APP_CACHE, KeyOf(last_call'))
                      /\ last_plain[KeyOf(last_call')] # 0
                            => last_call'.app = last_plain[KeyOf(last_call')]
      ]_vars

\* C20's case: requests without ignore_cache for two keys were interleaved;
\* one application was built per key and the latest request, for a key
\* already built, received the first application.
C20_Witness ==
    /\ apps_built = 2
    /\ APP_CACHE = << << <<"A", FALSE>>, 1 >>, << <<"B", FALSE>>, 2 >> >>
    /\ last_call.outcome = "returned"
    /\ ~last_call.ignore_cache
    /\ last_call.app = 1
    /\ last_plain[<<"A", FALSE>>] = 1
    /\ last_plain[<<"B", FALSE>>] = 2

====
